---------------------------- MODULE Spec2Model ----------------------------
(***************************************************************************)
(* A model of the gym tracker (src/App.tsx, src/services/geminiService.ts, *)
(* src/unnamed/part_000 = types.ts, src/unnamed/part_001 = constants.ts).  *)
(*                                                                         *)
(* The state is the React state of the App component plus the localStorage *)
(* slot 'gym_tracker_workouts' and the analysis requests in flight.        *)
(* One action per event handler.  The useMemo values (uniqueExercises,     *)
(* statsData) and the values rendered inline (the aggregate summary) are   *)
(* operators of the state.                                                 *)
(*                                                                         *)
(* Navigation (activeTab) is left out: setActiveTab changes nothing else   *)
(* and every tab can be opened at any time, so every sequence of handler   *)
(* calls of the model is a sequence the user can produce.                  *)
(***************************************************************************)
EXTENDS Integers, Sequences, FiniteSets, TLC

VARIABLES
    phase,                \* "boot" (before the first render), "running", "crashed"
    slot,                 \* localStorage['gym_tracker_workouts']
    workouts,             \* useState<WorkoutSession[]>
    selectedDay,          \* useState<DayType>
    currentSession,       \* useState<ExerciseLog[]>, the draft
    aiAnalysis,           \* useState<string>
    isAnalyzing,          \* useState(false)
    selectedStatExercise, \* useState<string>
    apiKey,               \* process.env.API_KEY is set
    inflight,             \* analyzeWorkoutProgress calls that have not resumed their caller
    nextId,               \* number of ids generateId has handed out
    edits,                \* number of updateSet, removeSet and removeExercise calls so far
    budget,               \* the ids and edits a behaviour may use, fixed at the start
    lastSave              \* how the last saveWorkout call ended: "none", "saved", "empty"

vars == <<phase, slot, workouts, selectedDay, currentSession, aiAnalysis, isAnalyzing,
          selectedStatExercise, apiKey, inflight, nextId, edits, budget, lastSave>>

---------------------------------------------------------------------------
(* Bounds of the model.  A behaviour is explored under one of three        *)
(* budgets: a busy draft (MaxDraftIds ids, MaxEdits edits), a long life    *)
(* (MaxIds ids, no edit), which is what three saved sessions and an        *)
(* analysis need, or a later life of the page (MaxLateIds ids, no edit),   *)
(* which starts with the sessions an earlier life has stored.              *)

MaxIds == 9           \* ids generateId may hand out in a long life
MaxDraftIds == 5      \* ids generateId may hand out around a busy draft
MaxLateIds == 3       \* ids generateId may hand out in a later life of the page
MaxEdits == 1         \* edits made to drafts in a behaviour with a busy draft
MaxSessions == 4      \* sessions in the collection
MaxExercises == 2     \* entries in the draft
MaxSets == 2          \* sets in one entry

\* what the wall clock can read when a session is saved; it is not monotonic
Clock == {0, 1}

(* Program constants *)

TicksPerDay == 2      \* clock ticks in one calendar day of the ISO date
MinWorkoutsForAI == 3 \* the trigger is rendered from this many sessions on
RecentLimit == 10     \* slice(0, 10)

---------------------------------------------------------------------------
(* JavaScript numbers, as far as the program meets them *)

Num(n) == [k |-> "num", v |-> n]
NaN == [k |-> "NaN", v |-> 0]
NegInfinity == [k |-> "-Infinity", v |-> 0]
Null == [k |-> "null", v |-> 0]

IsFinite(x) == x.k = "num"

\* ToNumber: null converts to 0
ToNumber(x) == IF x.k = "null" THEN Num(0) ELSE x

\* a * b on the values above (a weight is never infinite)
Times(a, b) ==
    LET x == ToNumber(a)
        y == ToNumber(b)
    IN  IF x.k = "num" /\ y.k = "num" THEN Num(x.v * y.v) ELSE NaN

\* a + b
Plus(a, b) ==
    LET x == ToNumber(a)
        y == ToNumber(b)
    IN  IF x.k = "num" /\ y.k = "num" THEN Num(x.v + y.v) ELSE NaN

\* x || 0
OrZero(x) == IF x.k = "num" /\ x.v # 0 THEN x ELSE Num(0)

\* Math.max(...xs): -Infinity for no argument, NaN if any argument is NaN
RECURSIVE MathMaxFrom(_, _, _)
MathMaxFrom(xs, i, acc) ==
    IF i > Len(xs) THEN acc
    ELSE LET x == ToNumber(xs[i])
         IN  IF acc.k = "NaN" \/ x.k = "NaN" THEN MathMaxFrom(xs, i + 1, NaN)
             ELSE IF acc.k = "-Infinity" THEN MathMaxFrom(xs, i + 1, x)
             ELSE MathMaxFrom(xs, i + 1, IF x.v > acc.v THEN x ELSE acc)

MathMax(xs) == MathMaxFrom(xs, 1, NegInfinity)

\* parseFloat(e.target.value) of a number field: a number, or NaN for an
\* emptied field
InputValues == {Num(1), NaN}

---------------------------------------------------------------------------
(* Strings: a name is its sequence of UTF-16 code units *)

\* the order Array.prototype.sort() uses without a comparator
RECURSIVE StrLessFrom(_, _, _)
StrLessFrom(a, b, i) ==
    IF i > Len(a) THEN i <= Len(b)
    ELSE IF i > Len(b) THEN FALSE
    ELSE IF a[i] # b[i] THEN a[i] < b[i]
    ELSE StrLessFrom(a, b, i + 1)

StrLess(a, b) == StrLessFrom(a, b, 1)

EmptyString == <<>>

\* DayType
PECHO == "Pecho"
ESPALDA == "Espalda"
DayTypes == {PECHO, ESPALDA}

\* the names are cut to two code units: "Pr"ess de Banca Plano,
\* "Do"minadas (Pull-ups)
PressDeBanca == <<80, 114>>
Dominadas == <<68, 111>>

DEFAULT_EXERCISES(day) ==
    IF day = PECHO THEN {PressDeBanca} ELSE {Dominadas}

---------------------------------------------------------------------------
(* Dates: an ISO string is <<date portion, time of day>> *)

\* new Date().toISOString() when the clock reads now
ToISOString(now) == <<now \div TicksPerDay, now % TicksPerDay>>

\* new Date(dateStr).getTime()
GetTime(dateStr) == dateStr[1] * TicksPerDay + dateStr[2]

\* dateStr.split('T')[0]
DatePortion(dateStr) == dateStr[1]

\* formatShortDate: day and month of the date
formatShortDate(dateStr) == dateStr[1]

---------------------------------------------------------------------------
(* Sequences *)

Map(s, F(_)) == [i \in 1..Len(s) |-> F(s[i])]

\* variant of InsertByKey: an unstable sort, which puts an element before
\* the elements of its own key
RECURSIVE InsertBeforeEqual(_, _)
InsertBeforeEqual(x, s) ==
    IF s = <<>> THEN <<x>>
    ELSE IF x.key <= Head(s).key THEN <<x>> \o s
    ELSE <<Head(s)>> \o InsertBeforeEqual(x, Tail(s))

\* Array.prototype.sort((a, b) => key(a) - key(b)) on a sequence of
\* [key, val] pairs.  The sort is stable (ES2019): an element goes after
\* every element whose key is not greater than its own.
RECURSIVE InsertByKey(_, _)
InsertByKey(x, s) ==
    IF s = <<>> THEN <<x>>
    ELSE IF x.key < Head(s).key THEN <<x>> \o s
    ELSE <<Head(s)>> \o InsertByKey(x, Tail(s))

RECURSIVE SortByKey(_)
SortByKey(s) ==
    IF s = <<>> THEN <<>>
    ELSE InsertByKey(s[Len(s)], SortByKey(SubSeq(s, 1, Len(s) - 1)))

Vals(s) == [i \in 1..Len(s) |-> s[i].val]

---------------------------------------------------------------------------
(* The persistent slot *)

Absent == [kind |-> "absent", value |-> <<>>]
Corrupt == [kind |-> "corrupt", value |-> <<>>]

\* JSON.stringify of a number: NaN and the infinities become null
JsonNumber(x) == IF x.k = "num" THEN x ELSE Null

JsonSet(s) == [id |-> s.id, reps |-> JsonNumber(s.reps), weight |-> JsonNumber(s.weight)]
JsonExercise(e) == [id |-> e.id, name |-> e.name, sets |-> Map(e.sets, JsonSet)]
JsonSession(w) ==
    [id |-> w.id, date |-> w.date, type |-> w.type,
     exercises |-> Map(w.exercises, JsonExercise)]

\* JSON.stringify(workouts)
Stringify(ws) == [kind |-> "json", value |-> Map(ws, JsonSession)]

\* JSON.parse(saved)
Parse(saved) == saved.value

---------------------------------------------------------------------------
(* Derived values *)

\* variant of SameName: the names are compared without regard to case
FoldCase(c) == IF c >= 97 /\ c <= 122 THEN c - 32 ELSE c
SameNameIgnoringCase(a, b) ==
    /\ Len(a) = Len(b)
    /\ \A i \in 1..Len(a) : FoldCase(a[i]) = FoldCase(b[i])

\* e.name === selectedStatExercise
SameName(a, b) == a = b

\* w.exercises.some(e => e.name === name)
HasExercise(w, name) ==
    \E i \in 1..Len(w.exercises) : SameName(w.exercises[i].name, name)

\* variant of FindExercise: the last entry of the name is taken
FindLastExercise(w, name) ==
    IF HasExercise(w, name)
    THEN CHOOSE i \in 1..Len(w.exercises) :
            /\ SameName(w.exercises[i].name, name)
            /\ \A j \in (i + 1)..Len(w.exercises) : ~SameName(w.exercises[j].name, name)
    ELSE 0

\* the index of w.exercises.find(e => e.name === name), 0 for undefined
FindExercise(w, name) ==
    IF HasExercise(w, name)
    THEN CHOOSE i \in 1..Len(w.exercises) :
            /\ SameName(w.exercises[i].name, name)
            /\ \A j \in 1..(i - 1) : ~SameName(w.exercises[j].name, name)
    ELSE 0

\* the reducer (acc, s) => acc + (s.weight * s.reps) applied from set i on
RECURSIVE ReduceVolume(_, _, _)
ReduceVolume(sets, i, acc) ==
    IF i > Len(sets) THEN acc
    ELSE ReduceVolume(sets, i + 1, Plus(acc, Times(sets[i].weight, sets[i].reps)))

\* variant of TotalVolume: the repetitions are left out of the sum
RECURSIVE ReduceWeights(_, _, _)
ReduceWeights(sets, i, acc) ==
    IF i > Len(sets) THEN acc
    ELSE ReduceWeights(sets, i + 1, Plus(acc, sets[i].weight))

TotalVolumeWithoutReps(sets) == ReduceWeights(sets, 1, Num(0))

\* exercise.sets.reduce((acc, s) => acc + (s.weight * s.reps), 0)
TotalVolume(sets) == ReduceVolume(sets, 1, Num(0))

NoPoint == [none |-> TRUE]

\* the callback of .map: null when find returns undefined
ProgressPoint(w, name) ==
    LET found == FindExercise(w, name)
        exercise == w.exercises[found]
    IN  IF found = 0 THEN NoPoint
        ELSE [date |-> formatShortDate(w.date),
              rawDate |-> w.date,
              weight |-> MathMax([i \in 1..Len(exercise.sets) |-> exercise.sets[i].weight]),
              volume |-> TotalVolume(exercise.sets)]

\* the statsData memo for a collection and a selected name.  filter and
\* map build new arrays, so the sort leaves the collection alone.
StatsFor(ws, name) ==
    IF name = EmptyString THEN <<>>
    ELSE LET matched == SelectSeq(ws, LAMBDA w : HasExercise(w, name))
             mapped == [i \in 1..Len(matched) |-> ProgressPoint(matched[i], name)]
             points == SelectSeq(mapped, LAMBDA p : p # NoPoint)
         IN  Vals(SortByKey([i \in 1..Len(points) |->
                    [key |-> GetTime(points[i].rawDate), val |-> points[i]]]))

statsData == StatsFor(workouts, selectedStatExercise)

\* the names of all entries, in the order the forEach loops visit them
RECURSIVE VisitNames(_)
VisitNames(ws) ==
    IF ws = <<>> THEN <<>>
    ELSE [j \in 1..Len(Head(ws).exercises) |-> Head(ws).exercises[j].name]
            \o VisitNames(Tail(ws))

\* allNames: a Set keeps the first insertion of each value
RECURSIVE SetOf(_)
SetOf(names) ==
    IF names = <<>> THEN <<>>
    ELSE LET front == SetOf(SubSeq(names, 1, Len(names) - 1))
             last == names[Len(names)]
         IN  IF \E i \in 1..Len(front) : front[i] = last THEN front
             ELSE Append(front, last)

\* Array.prototype.sort() without a comparator
RECURSIVE InsertString(_, _)
InsertString(x, s) ==
    IF s = <<>> THEN <<x>>
    ELSE IF StrLess(x, Head(s)) THEN <<x>> \o s
    ELSE <<Head(s)>> \o InsertString(x, Tail(s))

RECURSIVE SortStrings(_)
SortStrings(s) ==
    IF s = <<>> THEN <<>>
    ELSE InsertString(s[Len(s)], SortStrings(SubSeq(s, 1, Len(s) - 1)))

\* variant of CatalogOf: the names are left in the order of insertion
CatalogUnsorted(ws) == SetOf(VisitNames(ws))

\* Array.from(allNames).sort()
CatalogOf(ws) == SortStrings(SetOf(VisitNames(ws)))

uniqueExercises == CatalogOf(workouts)

\* workouts.length
TotalSessions == Len(workouts)

\* variant of ActiveDays: the timestamps are counted whole
ActiveInstants == Cardinality({workouts[i].date : i \in 1..Len(workouts)})

\* new Set(workouts.map(w => w.date.split('T')[0])).size
ActiveDays == Cardinality({DatePortion(workouts[i].date) : i \in 1..Len(workouts)})

---------------------------------------------------------------------------
(* The analysis service *)

NoKeyMessage == "API Key no configurada. Por favor configura tu API Key para recibir consejos."
EmptyMessage == "No se pudo generar un analisis en este momento."
ErrorMessage == "Hubo un error al conectar con el entrenador IA. Intentalo mas tarde."
ServiceText == "text"

\* variant of SortNewestFirst: the oldest session comes first
SortOldestFirst(history) ==
    Vals(SortByKey([i \in 1..Len(history) |->
            [key |-> GetTime(history[i].date), val |-> history[i]]]))

\* history.sort((a, b) => new Date(b.date).getTime() - new Date(a.date).getTime())
SortNewestFirst(history) ==
    Vals(SortByKey([i \in 1..Len(history) |->
            [key |-> 0 - GetTime(history[i].date), val |-> history[i]]]))

\* .slice(0, 10)
Slice(s, n) == SubSeq(s, 1, IF Len(s) < n THEN Len(s) ELSE n)

\* a promise already settled, whose continuation runs before any other event
MicrotaskPending == \E i \in 1..Len(inflight) : inflight[i].settled

\* the user (or the network) can act: the component is mounted and no
\* continuation is waiting in the microtask queue
Idle == phase = "running" /\ ~MicrotaskPending

---------------------------------------------------------------------------
(* Init and the handlers *)

\* a session as addExerciseToSession and saveWorkout make it: one entry
\* with its first set, saved when the clock read now
StoredSession(id, now) ==
    [id |-> id,
     date |-> ToISOString(now),
     type |-> PECHO,
     exercises |-> <<[id |-> id + 1,
                      name |-> PressDeBanca,
                      sets |-> <<[id |-> id + 2, reps |-> Num(0), weight |-> Num(0)]>>]>>]

\* the collection an earlier life of the page has left in the slot:
\* MinWorkoutsForAI sessions, the last saved first, saved at the clock
\* readings nows[1], nows[2], ...
StoredCollection(nows) ==
    [i \in 1..Len(nows) |->
        StoredSession(100 + 10 * (Len(nows) + 1 - i), nows[Len(nows) + 1 - i])]

StoredSlots == {Stringify(StoredCollection(nows)) : nows \in [1..MinWorkoutsForAI -> Clock]}

\* the state before the first render of a later life of the page
InitLate ==
    /\ phase = "boot"
    /\ slot \in StoredSlots
    /\ workouts = <<>>
    /\ selectedDay = PECHO
    /\ currentSession = <<>>
    /\ aiAnalysis = ""
    /\ isAnalyzing = FALSE
    /\ selectedStatExercise = EmptyString
    /\ inflight = <<>>
    /\ nextId = 0
    /\ edits = 0
    /\ budget = [ids |-> MaxLateIds, edits |-> 0]
    /\ apiKey \in BOOLEAN
    /\ lastSave = "none"

\* the state before the first render of the first life of the page, or of
\* a later one.  With the budget of a busy draft the collection never
\* reaches MinWorkoutsForAI sessions, so the key plays no part there.
Init ==
  \/ InitLate
  \/
    /\ phase = "boot"
    /\ slot \in {Absent, Corrupt}
    /\ workouts = <<>>
    /\ selectedDay = PECHO
    /\ currentSession = <<>>
    /\ aiAnalysis = ""
    /\ isAnalyzing = FALSE
    /\ selectedStatExercise = EmptyString
    /\ inflight = <<>>
    /\ nextId = 0
    /\ edits = 0
    /\ \/ budget = [ids |-> MaxDraftIds, edits |-> MaxEdits] /\ apiKey = FALSE
       \/ budget = [ids |-> MaxIds, edits |-> 0] /\ apiKey \in BOOLEAN
    /\ lastSave = "none"

\* the first render: the useState initializers, then the effect
Mount ==
    /\ phase = "boot"
    /\ IF slot.kind = "corrupt"
       THEN \* JSON.parse throws inside the initializer
            /\ phase' = "crashed"
            /\ UNCHANGED <<slot, workouts>>
       ELSE /\ phase' = "running"
            /\ workouts' = (IF slot.kind = "absent" THEN <<>> ELSE Parse(slot))
            /\ slot' = Stringify(workouts')
    /\ UNCHANGED <<edits, budget, lastSave, selectedDay, currentSession, aiAnalysis, isAnalyzing,
                   selectedStatExercise, apiKey, inflight, nextId>>

\* the page is loaded again: all React state is gone, the slot stays
Reload ==
    /\ phase # "boot"
    /\ phase' = "boot"
    /\ workouts' = <<>>
    /\ selectedDay' = PECHO
    /\ currentSession' = <<>>
    /\ aiAnalysis' = ""
    /\ isAnalyzing' = FALSE
    /\ selectedStatExercise' = EmptyString
    /\ inflight' = <<>>
    /\ UNCHANGED <<edits, budget, lastSave, slot, apiKey, nextId>>

setSelectedDay(type) ==
    /\ Idle
    /\ selectedDay' = type
    /\ UNCHANGED <<edits, budget, lastSave, phase, slot, workouts, currentSession, aiAnalysis, isAnalyzing,
                   selectedStatExercise, apiKey, inflight, nextId>>

addExerciseToSession(exerciseName) ==
    /\ Idle
    /\ nextId + 2 <= budget.ids
    /\ Len(currentSession) < MaxExercises
    /\ LET newExercise ==
               [id |-> nextId + 1,
                name |-> exerciseName,
                sets |-> <<[id |-> nextId + 2, reps |-> Num(0), weight |-> Num(0)]>>]
       IN  currentSession' = Append(currentSession, newExercise)
    /\ nextId' = nextId + 2
    /\ UNCHANGED <<edits, budget, lastSave, phase, slot, workouts, selectedDay, aiAnalysis, isAnalyzing,
                   selectedStatExercise, apiKey, inflight>>

SetField(s, field, value) ==
    IF field = "reps" THEN [s EXCEPT !.reps = value] ELSE [s EXCEPT !.weight = value]

updateSet(exerciseId, setId, field, value) ==
    /\ Idle
    /\ edits < budget.edits
    /\ edits' = edits + 1
    /\ currentSession' =
          [i \in 1..Len(currentSession) |->
             LET ex == currentSession[i]
             IN  IF ex.id # exerciseId THEN ex
                 ELSE [ex EXCEPT !.sets =
                          [j \in 1..Len(ex.sets) |->
                             IF ex.sets[j].id = setId
                             THEN SetField(ex.sets[j], field, value)
                             ELSE ex.sets[j]]]]
    /\ UNCHANGED <<budget, lastSave, phase, slot, workouts, selectedDay, aiAnalysis, isAnalyzing,
                   selectedStatExercise, apiKey, inflight, nextId>>

\* the set addSet appends to ex.sets
NewSet(ex, id) ==
    IF Len(ex.sets) = 0
    THEN [id |-> id, reps |-> Num(0), weight |-> Num(0)]
    ELSE LET lastSet == ex.sets[Len(ex.sets)]
         IN  [id |-> id, reps |-> OrZero(lastSet.reps), weight |-> OrZero(lastSet.weight)]

addSet(exerciseId) ==
    /\ Idle
    /\ nextId + 1 <= budget.ids
    /\ \A i \in 1..Len(currentSession) :
          currentSession[i].id = exerciseId => Len(currentSession[i].sets) < MaxSets
    /\ currentSession' =
          [i \in 1..Len(currentSession) |->
             LET ex == currentSession[i]
             IN  IF ex.id # exerciseId THEN ex
                 ELSE [ex EXCEPT !.sets = Append(ex.sets, NewSet(ex, nextId + 1))]]
    /\ nextId' = nextId + 1
    /\ UNCHANGED <<edits, budget, lastSave, phase, slot, workouts, selectedDay, aiAnalysis, isAnalyzing,
                   selectedStatExercise, apiKey, inflight>>

removeSet(exerciseId, setId) ==
    /\ Idle
    /\ edits < budget.edits
    /\ edits' = edits + 1
    /\ currentSession' =
          [i \in 1..Len(currentSession) |->
             LET ex == currentSession[i]
             IN  IF ex.id # exerciseId THEN ex
                 ELSE [ex EXCEPT !.sets = SelectSeq(ex.sets, LAMBDA s : s.id # setId)]]
    /\ UNCHANGED <<budget, lastSave, phase, slot, workouts, selectedDay, aiAnalysis, isAnalyzing,
                   selectedStatExercise, apiKey, inflight, nextId>>

removeExercise(exerciseId) ==
    /\ Idle
    /\ edits < budget.edits
    /\ edits' = edits + 1
    /\ currentSession' = SelectSeq(currentSession, LAMBDA ex : ex.id # exerciseId)
    /\ UNCHANGED <<budget, lastSave, phase, slot, workouts, selectedDay, aiAnalysis, isAnalyzing,
                   selectedStatExercise, apiKey, inflight, nextId>>

\* variant of DraftIsEmpty: the early return is lost
DraftNeverEmpty(draft) == FALSE

\* currentSession.length === 0
DraftIsEmpty(draft) == Len(draft) = 0

\* variant of Prepend: the new session takes the place of the newest one
ReplaceNewest(newWorkout, ws) == <<newWorkout>> \o (IF ws = <<>> THEN <<>> ELSE Tail(ws))

\* variant of Prepend: the new session goes to the end
AppendLast(newWorkout, ws) == ws \o <<newWorkout>>

\* [newWorkout, ...workouts]
Prepend(newWorkout, ws) == <<newWorkout>> \o ws

\* saveWorkout when the clock reads now, with the effect that follows the
\* render it causes
saveWorkout(now) ==
    /\ Idle
    /\ IF DraftIsEmpty(currentSession)
       THEN /\ lastSave' = "empty"
            /\ UNCHANGED <<slot, workouts, currentSession, nextId>>
       ELSE /\ nextId + 1 <= budget.ids
            /\ Len(workouts) < MaxSessions
            /\ LET newWorkout ==
                       [id |-> nextId + 1,
                        date |-> ToISOString(now),
                        type |-> selectedDay,
                        exercises |-> currentSession]
               IN  workouts' = Prepend(newWorkout, workouts)
            /\ currentSession' = <<>>
            /\ slot' = Stringify(workouts')
            /\ nextId' = nextId + 1
            /\ lastSave' = "saved"
    /\ UNCHANGED <<edits, budget, phase, selectedDay, aiAnalysis, isAnalyzing,
                   selectedStatExercise, apiKey, inflight>>

setSelectedStatExercise(name) ==
    /\ Idle
    /\ selectedStatExercise' = name
    /\ UNCHANGED <<edits, budget, lastSave, phase, slot, workouts, selectedDay, currentSession, aiAnalysis,
                   isAnalyzing, apiKey, inflight, nextId>>

\* variant of TriggerEnabled: the button is not disabled while a call runs
TriggerNeverDisabled == Len(workouts) >= MinWorkoutsForAI

\* the button is rendered (workouts.length >= 3) and not disabled
TriggerEnabled == Len(workouts) >= MinWorkoutsForAI /\ ~isAnalyzing

\* handleAIAnalysis up to its await: setIsAnalyzing(true), then
\* analyzeWorkoutProgress(workouts) up to its return or its own await.
\* history is the array held in the workouts state; sort() orders it in
\* place, and no setWorkouts follows, so the effect does not run.
handleAIAnalysis ==
    /\ Idle
    /\ TriggerEnabled
    /\ isAnalyzing' = TRUE
    /\ IF ~apiKey
       THEN /\ inflight' = Append(inflight,
                    [settled |-> TRUE, result |-> NoKeyMessage, payload |-> Stringify(<<>>)])
            /\ UNCHANGED workouts
       ELSE /\ workouts' = SortNewestFirst(workouts)
            /\ inflight' = Append(inflight,
                    [settled |-> FALSE, result |-> "",
                     payload |-> Stringify(Slice(workouts', RecentLimit))])
    /\ UNCHANGED <<edits, budget, lastSave, phase, slot, selectedDay, currentSession, aiAnalysis,
                   selectedStatExercise, apiKey, nextId>>

\* variant of ResultOf: the rejection is not caught
ResultWithoutCatch(outcome) ==
    IF outcome = "text" THEN ServiceText
    ELSE IF outcome = "empty" THEN EmptyMessage
    ELSE "unhandled rejection"

\* what analyzeWorkoutProgress returns for an outcome of generateContent
ResultOf(outcome) ==
    IF outcome = "text" THEN ServiceText
    ELSE IF outcome = "empty" THEN EmptyMessage
    ELSE ErrorMessage

\* variant of Respond: the payload is read again from the collection when
\* the response arrives
RespondRereading(i, outcome) ==
    /\ phase = "running"
    /\ i \in 1..Len(inflight)
    /\ ~inflight[i].settled
    /\ inflight' = [inflight EXCEPT ![i] = [@ EXCEPT !.settled = TRUE,
                                                     !.result = ResultOf(outcome),
                                                     !.payload = Stringify(Slice(workouts, RecentLimit))]]
    /\ UNCHANGED <<edits, budget, lastSave, phase, slot, workouts, selectedDay, currentSession, aiAnalysis,
                   isAnalyzing, selectedStatExercise, apiKey, nextId>>

\* generateContent settles: its promise resolves with a text, resolves
\* with no text, or rejects
Respond(i, outcome) ==
    /\ phase = "running"
    /\ i \in 1..Len(inflight)
    /\ ~inflight[i].settled
    /\ inflight' = [inflight EXCEPT ![i] = [@ EXCEPT !.settled = TRUE,
                                                     !.result = ResultOf(outcome)]]
    /\ UNCHANGED <<edits, budget, lastSave, phase, slot, workouts, selectedDay, currentSession, aiAnalysis,
                   isAnalyzing, selectedStatExercise, apiKey, nextId>>

\* variant of Resume: the caller does not go on after a failed request
ResumeUnlessFailed(i) ==
    /\ phase = "running"
    /\ i \in 1..Len(inflight)
    /\ inflight[i].settled
    /\ inflight[i].result # ErrorMessage
    /\ aiAnalysis' = inflight[i].result
    /\ isAnalyzing' = FALSE
    /\ inflight' = SubSeq(inflight, 1, i - 1) \o SubSeq(inflight, i + 1, Len(inflight))
    /\ UNCHANGED <<edits, budget, lastSave, phase, slot, workouts, selectedDay, currentSession,
                   selectedStatExercise, apiKey, nextId>>

\* handleAIAnalysis after its await
Resume(i) ==
    /\ phase = "running"
    /\ i \in 1..Len(inflight)
    /\ inflight[i].settled
    /\ aiAnalysis' = inflight[i].result
    /\ isAnalyzing' = FALSE
    /\ inflight' = SubSeq(inflight, 1, i - 1) \o SubSeq(inflight, i + 1, Len(inflight))
    /\ UNCHANGED <<edits, budget, lastSave, phase, slot, workouts, selectedDay, currentSession,
                   selectedStatExercise, apiKey, nextId>>

DraftIds == {currentSession[i].id : i \in 1..Len(currentSession)}
DraftSetIds(exerciseId) ==
    UNION {{currentSession[i].sets[j].id : j \in 1..Len(currentSession[i].sets)} :
              i \in {k \in 1..Len(currentSession) : currentSession[k].id = exerciseId}}

\* the <option>s of the exercise selector
Options == {uniqueExercises[i] : i \in 1..Len(uniqueExercises)}

\* the handlers of the log tab, the stats tab and the page itself
Logging ==
    \/ Mount
    \/ Reload
    \/ \E type \in DayTypes : setSelectedDay(type)
    \/ \E name \in DEFAULT_EXERCISES(selectedDay) : addExerciseToSession(name)
    \/ \E e \in DraftIds : \E s \in DraftSetIds(e) :
          \E field \in {"reps", "weight"} : \E value \in InputValues :
             updateSet(e, s, field, value)
    \/ \E e \in DraftIds : addSet(e)
    \/ \E e \in DraftIds : \E s \in DraftSetIds(e) : removeSet(e, s)
    \/ \E e \in DraftIds : removeExercise(e)
    \/ \E now \in Clock : saveWorkout(now)
    \/ \E name \in {EmptyString} \cup Options : setSelectedStatExercise(name)

\* the handlers of the AI tab, and the service
Analysis ==
    \/ handleAIAnalysis
    \/ \E i \in 1..Len(inflight) : \E outcome \in {"text", "empty", "error"} :
          Respond(i, outcome)
    \/ \E i \in 1..Len(inflight) : Resume(i)

Next == Logging \/ Analysis

Spec == Init /\ [][Next]_vars

---------------------------------------------------------------------------
(* A later life of the page, with the scheduling the program relies on:    *)
(* the service settles every request it is sent, with a response or a      *)
(* failure, and a continuation in the microtask queue is run.              *)

\* generateContent settles some request
Settle ==
    \E i \in 1..Len(inflight) : \E outcome \in {"text", "empty", "error"} :
        Respond(i, outcome)

\* the continuation of some settled call runs
Continue == \E i \in 1..Len(inflight) : Resume(i)

\* the handlers a later life without edits can run
NextLive ==
    \/ Mount
    \/ Reload
    \/ \E type \in DayTypes : setSelectedDay(type)
    \/ \E name \in DEFAULT_EXERCISES(selectedDay) : addExerciseToSession(name)
    \/ \E e \in DraftIds : addSet(e)
    \/ \E now \in Clock : saveWorkout(now)
    \/ \E name \in {EmptyString} \cup Options : setSelectedStatExercise(name)
    \/ handleAIAnalysis
    \/ Settle
    \/ Continue

SpecLive == InitLate /\ [][NextLive]_vars /\ WF_vars(Settle) /\ WF_vars(Continue)

---------------------------------------------------------------------------
(* The analysis of a long history.  The collection holds up to MaxHistory  *)
(* sessions, more than the request takes, saved at any clock readings, so  *)
(* in any order of dates.                                                  *)

MaxHistory == 11      \* sessions in a long history

InitRecent ==
    /\ phase = "running"
    /\ \E n \in 0..MaxHistory : \E nows \in [1..n -> Clock] :
          workouts = StoredCollection(nows)
    /\ slot = Stringify(workouts)
    /\ selectedDay = PECHO
    /\ currentSession = <<>>
    /\ aiAnalysis = ""
    /\ isAnalyzing = FALSE
    /\ selectedStatExercise = EmptyString
    /\ apiKey = TRUE
    /\ inflight = <<>>
    /\ nextId = 0
    /\ edits = 0
    /\ budget = [ids |-> 0, edits |-> 0]
    /\ lastSave = "none"

SpecRecent == InitRecent /\ [][Analysis]_vars

---------------------------------------------------------------------------
(* The derived values as functions of the collection.  The collection is   *)
(* drawn from bounded sets, ordered in any way, with names that differ in  *)
(* case and with emptied weight fields; the target name is any name, also  *)
(* one the selector does not offer.                                        *)

MaxStatSessions == 3  \* sessions in a collection of one-entry sessions
MaxStatSets == 2      \* sets in an entry of a one-session collection

LowerPress == <<112, 114>>    \* "pr"
StatNames == {Dominadas, PressDeBanca, LowerPress}

\* ISO strings of three instants: two on one day, one on the next
StatDates == {ToISOString(t) : t \in 0..2}

\* <<reps, weight>> of a set
StatSets == {<<Num(2), Num(1)>>, <<Num(1), Num(2)>>, <<Num(1), NaN>>}

SeqsUpTo(S, n) == UNION {[1..k -> S] : k \in 0..n}

\* one-entry sessions, as <<date, name>>; the weight of the only set of
\* the i-th session is i, which tells the sessions of one instant apart
PlainSessions == StatDates \X StatNames

\* entries, as <<name, sets>>
RichEntries == StatNames \X SeqsUpTo(StatSets, MaxStatSets)

EntryOf(i, j, name, sets) ==
    [id |-> 10 * i + j,
     name |-> name,
     sets |-> [k \in 1..Len(sets) |->
                 [id |-> 100 * i + 10 * j + k, reps |-> sets[k][1], weight |-> sets[k][2]]]]

PlainCollection(c) ==
    [i \in 1..Len(c) |->
        [id |-> i, date |-> c[i][1], type |-> PECHO,
         exercises |-> <<EntryOf(i, 1, c[i][2], <<<<Num(1), Num(i)>>>>)>>]]

RichCollection(date, es) ==
    <<[id |-> 1, date |-> date, type |-> PECHO,
       exercises |-> [j \in 1..Len(es) |-> EntryOf(1, j, es[j][1], es[j][2])]]>>

\* up to MaxStatSessions one-entry sessions, or one session of one or two
\* entries with up to MaxStatSets sets each
IsStatCollection(ws) ==
    \/ \E n \in 0..MaxStatSessions : \E c \in [1..n -> PlainSessions] :
          ws = PlainCollection(c)
    \/ \E n \in 1..2 : \E es \in [1..n -> RichEntries] :
          ws = RichCollection(ToISOString(0), es)

InitStats ==
    /\ phase = "running"
    /\ IsStatCollection(workouts)
    /\ slot = Stringify(workouts)
    /\ selectedDay = PECHO
    /\ currentSession = <<>>
    /\ aiAnalysis = ""
    /\ isAnalyzing = FALSE
    /\ selectedStatExercise = EmptyString
    /\ apiKey = FALSE
    /\ inflight = <<>>
    /\ nextId = 0
    /\ edits = 0
    /\ budget = [ids |-> 0, edits |-> 0]
    /\ lastSave = "none"

NextStats == \E name \in {EmptyString} \cup StatNames : setSelectedStatExercise(name)

SpecStats == InitStats /\ [][NextStats]_vars

---------------------------------------------------------------------------
(* What the claims speak of, stated apart from the code's way of computing *)

\* the sessions with an entry of that very name
Matching(ws, name) ==
    {i \in 1..Len(ws) : \E j \in 1..Len(ws[i].exercises) : ws[i].exercises[j].name = name}

\* the instant of session i
InstantOf(ws, i) == ws[i].date[1] * TicksPerDay + ws[i].date[2]

\* session i comes before session j in the chart: earlier, or as early and
\* ahead of it in the collection
ChartBefore(ws, i, j) ==
    \/ InstantOf(ws, i) < InstantOf(ws, j)
    \/ InstantOf(ws, i) = InstantOf(ws, j) /\ i < j

\* where the point of session i belongs in the chart of that name
ChartPlace(ws, name, i) ==
    1 + Cardinality({j \in Matching(ws, name) : ChartBefore(ws, j, i)})

\* the first entry of session i with that name
FirstEntry(ws, name, i) ==
    LET js == {j \in 1..Len(ws[i].exercises) : ws[i].exercises[j].name = name}
    IN  ws[i].exercises[CHOOSE j \in js : \A k \in js : j <= k]

AllNumbers(sets) ==
    \A k \in 1..Len(sets) : sets[k].reps.k = "num" /\ sets[k].weight.k = "num"

\* max(wi)
MaxWeight(sets) ==
    CHOOSE m \in {sets[k].weight.v : k \in 1..Len(sets)} :
        \A k \in 1..Len(sets) : sets[k].weight.v <= m

\* the sum of ri * wi
RECURSIVE SumVolume(_)
SumVolume(sets) ==
    IF sets = <<>> THEN 0
    ELSE Head(sets).reps.v * Head(sets).weight.v + SumVolume(Tail(sets))

\* a is before b in the lexicographic order of code units
LexBefore(a, b) ==
    \E i \in 1..(Len(a) + 1) :
        /\ \A k \in 1..(i - 1) : k <= Len(b) /\ a[k] = b[k]
        /\ \/ i = Len(a) + 1 /\ Len(b) >= i
           \/ i <= Len(a) /\ i <= Len(b) /\ a[i] < b[i]

NamesIn(ws) ==
    UNION {{ws[i].exercises[j].name : j \in 1..Len(ws[i].exercises)} : i \in 1..Len(ws)}

---------------------------------------------------------------------------
(* C1: for a non-empty selected name the chart has exactly one point for   *)
(* each session that holds an entry of exactly that name (case-sensitive)  *)
(* and none for any other session: as many points as such sessions, and on *)
(* every date as many points as such sessions of that date; a name in no   *)
(* session gives the empty chart.                                          *)
C1_OnePointPerMatchingSession ==
    selectedStatExercise # EmptyString =>
        LET M == Matching(workouts, selectedStatExercise)
        IN  /\ Len(statsData) = Cardinality(M)
            /\ \A d \in {workouts[i].date : i \in 1..Len(workouts)} :
                  Cardinality({k \in 1..Len(statsData) : statsData[k].rawDate = d})
                    = Cardinality({i \in M : workouts[i].date = d})
            /\ (M = {} => statsData = <<>>)

\* a chart of two points for a collection of three sessions, the third of
\* which has a name that differs from the selected one in case alone
C1_Witness ==
    /\ selectedStatExercise = PressDeBanca
    /\ Len(workouts) = 3
    /\ Cardinality(Matching(workouts, PressDeBanca)) = 2
    /\ \E i \in 1..Len(workouts) : workouts[i].exercises[1].name = LowerPress
    /\ Len(statsData) = 2

(* C2: the chart never holds a point whose maximum weight is not a finite *)
(* number: a session whose matched entry has no set gives no point.        *)
C2_NoNonFinitePoint ==
    selectedStatExercise # EmptyString =>
        /\ \A k \in 1..Len(statsData) : IsFinite(statsData[k].weight)
        /\ Len(statsData) =
              Cardinality({i \in Matching(workouts, selectedStatExercise) :
                  Len(FirstEntry(workouts, selectedStatExercise, i).sets) >= 1})

(* C3: the point of a matched entry whose sets [(r1,w1)...(rn,wn)] are     *)
(* numbers has weight max(wi) and volume the sum of ri*wi when n >= 1, and *)
(* volume 0 when n = 0.                                                    *)
C3_MaxWeightAndVolume ==
    selectedStatExercise # EmptyString =>
        \A i \in Matching(workouts, selectedStatExercise) :
            LET sets == FirstEntry(workouts, selectedStatExercise, i).sets
                point == statsData[ChartPlace(workouts, selectedStatExercise, i)]
            IN  AllNumbers(sets) =>
                  /\ Len(sets) >= 1 => point.weight = Num(MaxWeight(sets))
                  /\ Len(sets) >= 1 => point.volume = Num(SumVolume(sets))
                  /\ Len(sets) = 0 => point.volume = Num(0)

\* the point of an entry with the sets (2 reps, 1 kg), (1 rep, 2 kg)
C3_Witness ==
    /\ selectedStatExercise # EmptyString
    /\ Len(workouts) = 1
    /\ Len(workouts[1].exercises) = 1
    /\ Len(workouts[1].exercises[1].sets) = 2
    /\ workouts[1].exercises[1].sets[1].reps = Num(2)
    /\ workouts[1].exercises[1].sets[2].weight = Num(2)
    /\ Len(statsData) = 1
    /\ statsData[1].weight = Num(2)
    /\ statsData[1].volume = Num(4)

(* C4: the chart is ordered by session timestamp, non-decreasing, and the  *)
(* points of sessions with equal timestamps keep the order their sessions  *)
(* have in the collection.                                                 *)
C4_OrderedAndStable ==
    selectedStatExercise # EmptyString =>
        /\ \A k \in 1..(Len(statsData) - 1) :
              statsData[k].rawDate[1] * TicksPerDay + statsData[k].rawDate[2]
                <= statsData[k + 1].rawDate[1] * TicksPerDay + statsData[k + 1].rawDate[2]
        /\ \A i \in Matching(workouts, selectedStatExercise) :
              LET k == ChartPlace(workouts, selectedStatExercise, i)
              IN  /\ k <= Len(statsData)
                  /\ statsData[k] = ProgressPoint(workouts[i], selectedStatExercise)

\* three sessions of the selected name, the newest first in the collection
\* and the two others of one instant with different weights
C4_Witness ==
    /\ selectedStatExercise = PressDeBanca
    /\ Len(workouts) = 3
    /\ Len(statsData) = 3
    /\ workouts[1].date = ToISOString(2)
    /\ workouts[2].date = ToISOString(0)
    /\ workouts[3].date = ToISOString(0)
    /\ workouts[2].exercises[1].sets[1].weight = Num(2)
    /\ workouts[3].exercises[1].sets[1].weight = Num(3)
    /\ statsData[1].weight = Num(2)
    /\ statsData[2].weight = Num(3)
    /\ statsData[3].weight = Num(1)

(* C5: when a session has several entries of the selected name, its point *)
(* is computed from the sets of the first of them alone: the sets of the   *)
(* later ones count neither for the maximum weight nor for the volume.     *)
C5_FirstDuplicateOnly ==
    selectedStatExercise # EmptyString =>
        \A i \in Matching(workouts, selectedStatExercise) :
            LET sets == FirstEntry(workouts, selectedStatExercise, i).sets
                point == statsData[ChartPlace(workouts, selectedStatExercise, i)]
            IN  /\ point.weight = MathMax([k \in 1..Len(sets) |-> sets[k].weight])
                /\ point.volume = TotalVolume(sets)

\* a saved session with two entries of the selected name, the second one
\* heavier than the first, and its point
C5_Witness ==
    /\ selectedStatExercise # EmptyString
    /\ lastSave = "saved"
    /\ Len(workouts) = 1
    /\ Len(workouts[1].exercises) = 2
    /\ workouts[1].exercises[1].name = selectedStatExercise
    /\ workouts[1].exercises[2].name = selectedStatExercise
    /\ workouts[1].exercises[1].sets = <<[id |-> 2, reps |-> Num(0), weight |-> Num(0)]>>
    /\ workouts[1].exercises[2].sets = <<[id |-> 4, reps |-> Num(0), weight |-> Num(1)]>>
    /\ Len(statsData) = 1
    /\ statsData[1].weight = Num(0)

(* C6: the catalog holds exactly the names that occur in some session's    *)
(* exercise list, each once, in ascending lexicographic order, names being *)
(* the same only when they are equal strings; the empty collection has the *)
(* empty catalog.                                                          *)
C6_CatalogSortedAndExact ==
    /\ {uniqueExercises[k] : k \in 1..Len(uniqueExercises)} = NamesIn(workouts)
    /\ \A k \in 1..(Len(uniqueExercises) - 1) :
          LexBefore(uniqueExercises[k], uniqueExercises[k + 1])
    /\ Len(uniqueExercises) = Cardinality(NamesIn(workouts))
    /\ (workouts = <<>> => uniqueExercises = <<>>)

\* a collection that meets the three names in descending order, one of
\* them twice
C6_Witness ==
    /\ Len(workouts) = 3
    /\ workouts[1].exercises[1].name = LowerPress
    /\ workouts[2].exercises[1].name = PressDeBanca
    /\ workouts[3].exercises[1].name = Dominadas
    /\ uniqueExercises = <<Dominadas, PressDeBanca, LowerPress>>

(* C7: the summary's total is the number of sessions and its day count is  *)
(* the number of distinct calendar days among the session timestamps; both *)
(* are 0 for the empty collection and the day count never exceeds the      *)
(* total.                                                                  *)
C7_AggregateSummary ==
    /\ TotalSessions = Cardinality(DOMAIN workouts)
    /\ ActiveDays =
          Cardinality({InstantOf(workouts, i) \div TicksPerDay : i \in 1..Len(workouts)})
    /\ (workouts = <<>> => TotalSessions = 0 /\ ActiveDays = 0)
    /\ ActiveDays <= TotalSessions

\* three sessions at three instants of two days
C7_Witness ==
    /\ Len(workouts) = 3
    /\ {workouts[i].date : i \in 1..3} = {ToISOString(0), ToISOString(1), ToISOString(2)}
    /\ TotalSessions = 3
    /\ ActiveDays = 2

(* C8: saveWorkout on a draft with at least one entry puts exactly one new *)
(* session at the front of the collection, with the draft's entries in     *)
(* draft order and the selected day type as its category, keeps the        *)
(* sessions saved before behind it in their order, and empties the draft.  *)
C8_SavePrepends ==
    [][\A now \in Clock :
          (saveWorkout(now) /\ Len(currentSession) >= 1) =>
              /\ Len(workouts') = Len(workouts) + 1
              /\ workouts'[1].exercises = currentSession
              /\ workouts'[1].type = selectedDay
              /\ \A i \in 1..Len(workouts) : workouts'[i + 1] = workouts[i]
              /\ \A i \in 1..Len(workouts) : workouts[i].id # workouts'[1].id
              /\ currentSession' = <<>>]_vars

\* a third session has just been saved, of the other day type
C8_Witness ==
    /\ phase = "running"
    /\ lastSave = "saved"
    /\ Len(workouts) = 3
    /\ workouts[1].type = ESPALDA
    /\ workouts[2].type = PECHO
    /\ workouts[1].id = nextId
    /\ currentSession = <<>>

(* C9: saveWorkout on an empty draft changes neither the collection nor    *)
(* the slot nor the draft and creates no session; so, from an empty        *)
(* collection on, every session of the collection has at least one entry.  *)
C9_EmptySaveIsNoOp ==
    /\ [](\A i \in 1..Len(workouts) : Len(workouts[i].exercises) >= 1)
    /\ [][\A now \in Clock :
             (saveWorkout(now) /\ Len(currentSession) = 0) =>
                 UNCHANGED <<workouts, slot, currentSession, nextId>>]_vars

\* saveWorkout has returned early, with a session in the collection
C9_Witness ==
    /\ phase = "running"
    /\ lastSave = "empty"
    /\ currentSession = <<>>
    /\ Len(workouts) >= 1

(* C10: once an operation that changes the in-memory collection, its order *)
(* included, has completed, the slot holds the serialization of the whole  *)
(* collection in the same order.                                           *)
C10_SlotMirrorsCollection ==
    (phase = "running" /\ inflight = <<>>) => slot = Stringify(workouts)

(* C11: the first render never fails: with the slot absent or not         *)
(* parseable the collection starts empty, and with a slot that parses it   *)
(* is the parse of the slot.                                               *)
C11_LoadNeverFails ==
    [][Mount =>
          /\ phase' = "running"
          /\ slot.kind \in {"absent", "corrupt"} => workouts' = <<>>
          /\ slot.kind = "json" => workouts' = Parse(slot)]_vars

(* C12: at most one analysis call is running at any time: the busy flag is *)
(* set exactly while a call has not resumed its caller, and no second call *)
(* starts while it is set.                                                 *)
C12_AtMostOneInFlight ==
    /\ Len(inflight) <= 1
    /\ phase = "running" => (isAnalyzing <=> inflight # <<>>)

\* a request is on its way and the trigger is rendered, disabled
C12_Witness ==
    /\ phase = "running"
    /\ isAnalyzing
    /\ Len(inflight) = 1
    /\ ~inflight[1].settled
    /\ Len(workouts) >= MinWorkoutsForAI

(* C13: a request carries the collection as it was when it was triggered:  *)
(* its payload never changes while the call runs, and a session that       *)
(* saveWorkout adds meanwhile is not in it.                                *)
C13_PayloadIsSnapshot ==
    [][\A i \in 1..Len(inflight) :
          Len(inflight') = Len(inflight) =>
             /\ inflight'[i].payload = inflight[i].payload
             /\ \A now \in Clock :
                   (saveWorkout(now) /\ ~DraftIsEmpty(currentSession)) =>
                      \A k \in 1..Len(inflight'[i].payload.value) :
                         inflight'[i].payload.value[k].id # workouts'[1].id]_vars

\* a session has been saved while a request with the earlier sessions was
\* on its way
C13_Witness ==
    /\ phase = "running"
    /\ Len(inflight) = 1
    /\ apiKey
    /\ lastSave = "saved"
    /\ Len(workouts) = Len(inflight[1].payload.value) + 1
    /\ \A k \in 1..Len(inflight[1].payload.value) :
          inflight[1].payload.value[k].id # workouts[1].id

\* the texts a call can end with
CallResults == {ServiceText, NoKeyMessage, EmptyMessage, ErrorMessage}

(* C14: a call makes at most one request and always ends with a string:    *)
(* the text of the service, or one of the three fixed texts (no key, and   *)
(* then no request is sent; failure; empty response).  A failure of the    *)
(* request settles the call like any response and stops nothing.           *)
C14_OneAttemptAlwaysAString ==
    /\ [](\A i \in 1..Len(inflight) :
             /\ inflight[i].settled => inflight[i].result \in CallResults
             /\ ~apiKey => (inflight[i].settled /\ inflight[i].result = NoKeyMessage))
    /\ [][\A i \in 1..Len(inflight) :
             /\ \A outcome \in {"text", "empty", "error"} :
                   Respond(i, outcome) =>
                      /\ inflight'[i].settled
                      /\ phase' = "running"
                      /\ outcome = "text" => inflight'[i].result = ServiceText
                      /\ outcome = "empty" => inflight'[i].result = EmptyMessage
                      /\ outcome = "error" => inflight'[i].result = ErrorMessage
             /\ Resume(i) => (aiAnalysis' \in CallResults /\ phase' = "running")]_vars

\* a request has failed and the caller shows the text for a failure
C14_Witness ==
    /\ phase = "running"
    /\ apiKey
    /\ aiAnalysis = ErrorMessage
    /\ ~isAnalyzing
    /\ inflight = <<>>

\* the sessions of the request the trigger has just started
NewPayload == inflight'[Len(inflight')].payload.value

(* C15: the payload of a request holds min(10, number of sessions)         *)
(* sessions of the collection, each once, and they are the latest: no      *)
(* session left out is later than a session taken.                         *)
C15_PayloadIsLatestTen ==
    [][(handleAIAnalysis /\ apiKey) =>
          LET taken == {NewPayload[k].id : k \in 1..Len(NewPayload)}
          IN  /\ Len(NewPayload) = (IF Len(workouts) < 10 THEN Len(workouts) ELSE 10)
              /\ Cardinality(taken) = Len(NewPayload)
              /\ \A k \in 1..Len(NewPayload) :
                    \E j \in 1..Len(workouts) : NewPayload[k] = JsonSession(workouts[j])
              /\ \A j \in 1..Len(workouts) :
                    workouts[j].id \notin taken =>
                       \A k \in 1..Len(NewPayload) :
                          GetTime(workouts[j].date) <= GetTime(NewPayload[k].date)]_vars

\* a request for a history of eleven sessions whose first, in the order of
\* the collection before the call, is the oldest: it is the one left out
C15_Witness ==
    /\ Len(workouts) = 11
    /\ Len(inflight) = 1
    /\ ~inflight[1].settled
    /\ Len(inflight[1].payload.value) = 10
    /\ slot.value[1].date = ToISOString(0)
    /\ \A k \in 2..11 : slot.value[k].date = ToISOString(1)
    /\ \A k \in 1..10 : inflight[1].payload.value[k].id # slot.value[1].id

(* C16: a saved session never changes and never leaves the collection:     *)
(* whatever handler runs in the application (draft edits, further saves,   *)
(* the selection of a chart, analysis calls), every session of the         *)
(* collection is in it afterwards with the same id, date, type and         *)
(* exercises.                                                              *)
C16_SavedSessionsImmutable ==
    [][(phase = "running" /\ phase' = "running") =>
          /\ Len(workouts') >= Len(workouts)
          /\ \A i \in 1..Len(workouts) :
                \E j \in 1..Len(workouts') : workouts'[j] = workouts[i]]_vars

\* a draft has been edited after a session was saved: the draft holds an
\* emptied field, the saved session holds none
C16_Witness ==
    /\ phase = "running"
    /\ Len(workouts) >= 1
    /\ edits >= 1
    /\ \A i \in 1..Len(workouts) : \A j \in 1..Len(workouts[i].exercises) :
          AllNumbers(workouts[i].exercises[j].sets)
    /\ \E j \in 1..Len(currentSession) : ~AllNumbers(currentSession[j].sets)

(* C17: triggering an analysis leaves the collection in memory as it is,   *)
(* the order of its sessions included, whatever that order and with or     *)
(* without a key.                                                          *)
C17_AnalysisKeepsCollection ==
    [][handleAIAnalysis => workouts' = workouts]_vars

(* C18: whenever the busy flag is set it is cleared later, and the step    *)
(* that clears it in the running application shows the result of the call, *)
(* whatever the outcome of the request, given that the service settles     *)
(* every request.                                                          *)
C18_BusyFlagIsCleared ==
    /\ isAnalyzing ~> ~isAnalyzing
    /\ [][(isAnalyzing /\ ~isAnalyzing' /\ phase' = "running") =>
             /\ Len(inflight) = 1
             /\ inflight[1].settled
             /\ aiAnalysis' = inflight[1].result
             /\ aiAnalysis' \in CallResults]_vars

\* the flag has been cleared after an empty response, whose text is shown,
\* and the trigger can be used again
C18_Witness ==
    /\ phase = "running"
    /\ apiKey
    /\ aiAnalysis = EmptyMessage
    /\ ~isAnalyzing
    /\ inflight = <<>>
    /\ TriggerEnabled

=============================================================================
